---- MODULE Spec2Model ----
(***************************************************************************)
(* Particle Electron "maintain a minimum battery capacity" firmware        *)
(* (firmware/electron-maintain-capacity.cpp) as a state machine.           *)
(*                                                                         *)
(* Two execution contexts run user code: the application thread (setup,    *)
(* then loop/processSerial) and the software-timer thread that runs the    *)
(* callbacks of batt_monitor and publish_data.  Each statement group that  *)
(* another context can observe is one step.  System.sleep with             *)
(* SLEEP_MODE_SOFTPOWEROFF powers the device down; on wake the firmware    *)
(* starts again from setup with only the `retained` variables preserved.   *)
(* A complete power loss re-creates the initial state and is therefore not *)
(* a separate action.                                                      *)
(***************************************************************************)
EXTENDS Integers, Sequences, FiniteSets, TLC

\* ---------------------------------------------------------------- constants
LOW_BATT_CAPACITY == 20

\* ------------------------------------------------------------------- bounds
\* consecutive low-battery cycles the environment produces before the
\* battery reads at/above the threshold again (counted from 0, also when the
\* counter has come to 0 by wrapping)
MaxAttempts == 25
\* characters that can be pending in the Serial1 receive buffer
MaxRx == 1
\* largest small argument given to sleep_backoff in isolation
MaxArg == 30

\* state-of-charge readings (percent) the fuel gauge can return
SoCValues == {15, 20, 25}
\* console characters: the five commands and one unrecognised character
Chars == {"q", "Q", "b", "v", "h", "x"}
Threads == {"app", "timer"}
\* arguments for the backoff calculator checked in isolation; 2147483647 is
\* the largest integer TLC holds
BackoffArgs == (0 .. MaxArg) \cup {1000, 65536, 2147483647}

VARIABLES
    last_battery_capacity,    \* retained float, line 40
    low_batt_sleep_attempts,  \* retained uint32_t, line 41
    power,                    \* "on" | "asleep" (System.sleep in effect)
    pc,                       \* position of each thread
    caller,                   \* who invoked the qualification pass of a thread
    socRead,                  \* SoC the pass of a thread read (-1: none)
    tmp,                      \* register holding the counter during ++
    sleep_time,               \* local sleep_time of the pass of a thread
    connReq,                  \* Particle.connect() has been called this boot
    connected,                \* Particle.connected()
    battStarted,              \* batt_monitor.start() done
    pubStarted,               \* publish_data.start() done
    rxbuf,                    \* pending Serial1 input
    c,                        \* char read by processSerial
    events,                   \* names of the events published this boot
    sawConn,                  \* what Particle.connected() returned to the pass
    passPub,                  \* the pass of a thread called Particle.publish
    sleepReq,                 \* the System.sleep request in effect
    quickStarts,              \* who issued FuelGauge().quickStart(): "setup"
                              \* this boot, "cmd" in the current processSerial
    console,                  \* what the current processSerial call printed
    run,                      \* history: passes that ended in System.sleep
                              \* since the last pass that ended in line 127
    allLow,                   \* history: every pass so far read SoC < 20
    lowSleeps,                \* history: sleep requests while allLow
    arg_m, arg_n, ret_m, ret_n  \* sleep_backoff checked in isolation

progVars == <<last_battery_capacity, low_batt_sleep_attempts, power, pc, caller,
              socRead, tmp, sleep_time, connReq, connected, battStarted,
              pubStarted, rxbuf, c, events, sawConn, passPub, sleepReq,
              quickStarts, console, run, allLow, lowSleeps>>
fnVars == <<arg_m, arg_n, ret_m, ret_n>>
vars == <<progVars, quickStarts, console,
                   fnVars>>

\* ------------------------------------------------------------ pure helpers
Min(a, b) == IF a < b THEN a ELSE b

\* A uint32_t value v is held as v when v < 2^31 and as v - 2^32 otherwise
\* (its two's-complement image), so 2^32 - 1 is held as -1.

\* ++ on a uint32_t: 2^32 - 1 wraps to 0
U32Inc(x) ==
    IF x = -1 THEN 0
    ELSE IF x = 2147483647 THEN -2147483647 - 1
    ELSE x + 1

\* unsigned division by 3: 2^32 = 3 * 1431655765 + 1
U32Div3(x) ==
    IF x >= 0 THEN x \div 3
    ELSE 1431655765 + ((x + 1) \div 3)

\* history count of consecutive sleep requests, held as min(k, 2^31 - 1)
SatInc(k) == IF k = 2147483647 THEN k ELSE k + 1

RECURSIVE Pow2(_)
Pow2(e) == IF e = 0 THEN 1 ELSE 2 * Pow2(e - 1)

\* mutant: the attempt_num == 0 early return is missing
sleep_backoff_NoZeroCheck(attempt_num) ==
    1000 * Pow2(Min(7, U32Div3(attempt_num)))

\* mutant: the exponent is capped at 8 instead of 7
sleep_backoff_Cap8(attempt_num) ==
    IF attempt_num = 0
    THEN 0
    ELSE 1000 * Pow2(Min(8, U32Div3(attempt_num)))

\* mutant: the exponent is not capped
sleep_backoff_NoCap(attempt_num) ==
    IF attempt_num = 0
    THEN 0
    ELSE 1000 * Pow2(U32Div3(attempt_num))

\* uint32_t sleep_backoff(uint32_t attempt_num), lines 59-65
sleep_backoff(attempt_num) ==
    IF attempt_num = 0
    THEN 0
    ELSE LET exponent == Min(7, U32Div3(attempt_num))
         IN  1000 * Pow2(exponent)

\* mutant: <= instead of <
battery_lower_than_OrEqual(reading, capacity) == reading <= capacity

\* bool battery_lower_than(float capacity) applied to a reading, lines 71-74
battery_lower_than(reading, capacity) == reading < capacity

\* mutant: the scaling divides by 1000 instead of 100
SleepTime_Div1000(n) == (144 * sleep_backoff(n)) \div 1000

\* uint32_t sleep_time = 144 * sleep_backoff(n) / 100, line 115
SleepTime(n) == (144 * sleep_backoff(n)) \div 100

NoSleep == [by |-> "none", dur |-> 0, n |-> 0, conn |-> FALSE, pub |-> FALSE]

SetupPcs == {"setup_begin", "setup_reset", "setup_connect", "setup_wait",
             "setup_wake", "setup_batt", "setup_pub"}
PassPcs == {"q_read", "q_load", "q_store", "q_connected", "q_publish",
            "q_sleep", "q_reset"}

\* setup() has returned and loop() is running
InLoop == caller["app"] # "setup" /\ pc["app"] \notin SetupPcs

\* where a qualification pass returns to
PassReturn(t) ==
    CASE caller[t] = "setup" -> "setup_connect"
      [] caller[t] = "serial" -> "ps_flush"
      [] OTHER -> "idle"

\* -------------------------------------------------------------------- Init
FnIdle == arg_m = 0 /\ arg_n = 0 /\ ret_m = -1 /\ ret_n = -1

\* everything but the retained counter at the start of setup
BootState ==
    /\ last_battery_capacity = 0
    /\ power = "on"
    /\ pc = [t \in Threads |-> IF t = "app" THEN "setup_begin" ELSE "idle"]
    /\ caller = [t \in Threads |-> "none"]
    /\ socRead = [t \in Threads |-> -1]
    /\ tmp = [t \in Threads |-> 0]
    /\ sleep_time = [t \in Threads |-> 0]
    /\ connReq = FALSE
    /\ connected = FALSE
    /\ battStarted = FALSE
    /\ pubStarted = FALSE
    /\ rxbuf = <<>>
    /\ c = "none"
    /\ events = {}
    /\ sawConn = [t \in Threads |-> FALSE]
    /\ passPub = [t \in Threads |-> FALSE]
    /\ sleepReq = NoSleep
    /\ quickStarts = {}
    /\ console = "none"
    /\ run = 0
    /\ allLow = TRUE

ProgInit ==
    /\ low_batt_sleep_attempts = 0
    /\ lowSleeps = 0
    /\ BootState

Init == ProgInit /\ FnIdle

\* ------------------------------------------------- qualify_battery_and_hibernate
\* line 114: battery_lower_than(LOW_BATT_CAPACITY) reads the fuel gauge
Q_Read(t) ==
    /\ power = "on" /\ pc[t] = "q_read"
    /\ \E s \in SoCValues :
        /\ battery_lower_than(s, LOW_BATT_CAPACITY)
              => low_batt_sleep_attempts < MaxAttempts
        /\ socRead' = [socRead EXCEPT ![t] = s]
        /\ pc' = [pc EXCEPT ![t] =
                    IF battery_lower_than(s, LOW_BATT_CAPACITY)
                    THEN "q_load" ELSE "q_reset"]
        /\ allLow' = (allLow /\ battery_lower_than(s, LOW_BATT_CAPACITY))
        /\ lowSleeps' = IF battery_lower_than(s, LOW_BATT_CAPACITY)
                        THEN lowSleeps ELSE 0
    /\ sawConn' = [sawConn EXCEPT ![t] = FALSE]
    /\ passPub' = [passPub EXCEPT ![t] = FALSE]
    /\ UNCHANGED <<last_battery_capacity, low_batt_sleep_attempts, power, caller,
                   tmp, sleep_time, connReq, connected, battStarted, pubStarted,
                   rxbuf, c, events, sleepReq, run, quickStarts, console,
                   fnVars>>

\* line 115, first half of ++low_batt_sleep_attempts: load the counter
Q_Load(t) ==
    /\ power = "on" /\ pc[t] = "q_load"
    /\ tmp' = [tmp EXCEPT ![t] = low_batt_sleep_attempts]
    /\ pc' = [pc EXCEPT ![t] = "q_store"]
    /\ UNCHANGED <<last_battery_capacity, low_batt_sleep_attempts, power, caller,
                   socRead, sleep_time, connReq, connected, battStarted,
                   pubStarted, rxbuf, c, events, sawConn, passPub, sleepReq, run,
                   allLow, lowSleeps, quickStarts, console,
                   fnVars>>

\* mutant: post-increment, sleep_backoff gets the value before the increment
Q_Store_PostIncrement(t) ==
    /\ power = "on" /\ pc[t] = "q_store"
    /\ low_batt_sleep_attempts' = U32Inc(tmp[t])
    /\ tmp' = [tmp EXCEPT ![t] = U32Inc(tmp[t])]
    /\ sleep_time' = [sleep_time EXCEPT ![t] = SleepTime(tmp[t])]
    /\ pc' = [pc EXCEPT ![t] = "q_connected"]
    /\ UNCHANGED <<last_battery_capacity, power, caller, socRead, connReq,
                   connected, battStarted, pubStarted, rxbuf, c, events, sawConn,
                   passPub, sleepReq, run, allLow, lowSleeps, quickStarts, console,
                   fnVars>>

\* line 115, second half: store the incremented counter and compute sleep_time
Q_Store(t) ==
    /\ power = "on" /\ pc[t] = "q_store"
    /\ low_batt_sleep_attempts' = U32Inc(tmp[t])
    /\ tmp' = [tmp EXCEPT ![t] = U32Inc(tmp[t])]
    /\ sleep_time' = [sleep_time EXCEPT ![t] = SleepTime(U32Inc(tmp[t]))]
    /\ pc' = [pc EXCEPT ![t] = "q_connected"]
    /\ UNCHANGED <<last_battery_capacity, power, caller, socRead, connReq,
                   connected, battStarted, pubStarted, rxbuf, c, events, sawConn,
                   passPub, sleepReq, run, allLow, lowSleeps, quickStarts, console,
                   fnVars>>

\* mutant: the SLEEP event is published without asking Particle.connected()
Q_Connected_AlwaysPublish(t) ==
    /\ power = "on" /\ pc[t] = "q_connected"
    /\ sawConn' = [sawConn EXCEPT ![t] = connected]
    /\ pc' = [pc EXCEPT ![t] = "q_publish"]
    /\ UNCHANGED <<last_battery_capacity, low_batt_sleep_attempts, power, caller,
                   socRead, tmp, sleep_time, connReq, connected, battStarted,
                   pubStarted, rxbuf, c, events, passPub, sleepReq, run, allLow,
                   lowSleeps, quickStarts, console,
                   fnVars>>

\* mutant: the pass waits for the cloud connection before going on
Q_Connected_WaitsForCloud(t) ==
    /\ power = "on" /\ pc[t] = "q_connected"
    /\ connected
    /\ sawConn' = [sawConn EXCEPT ![t] = TRUE]
    /\ pc' = [pc EXCEPT ![t] = "q_publish"]
    /\ UNCHANGED <<last_battery_capacity, low_batt_sleep_attempts, power, caller,
                   socRead, tmp, sleep_time, connReq, connected, battStarted,
                   pubStarted, rxbuf, c, events, passPub, sleepReq, run,
                   allLow, lowSleeps, quickStarts, console,
                   fnVars>>

\* line 116: if (Particle.connected())
Q_Connected(t) ==
    /\ power = "on" /\ pc[t] = "q_connected"
    /\ sawConn' = [sawConn EXCEPT ![t] = connected]
    /\ pc' = [pc EXCEPT ![t] = IF connected THEN "q_publish" ELSE "q_sleep"]
    /\ UNCHANGED <<last_battery_capacity, low_batt_sleep_attempts, power, caller,
                   socRead, tmp, sleep_time, connReq, connected, battStarted,
                   pubStarted, rxbuf, c, events, passPub, sleepReq, run, allLow,
                   lowSleeps, quickStarts, console,
                   fnVars>>

\* lines 117-118: publish_pmic_stats_event("SLEEP " + sleep_time); delay(5000)
Q_Publish(t) ==
    /\ power = "on" /\ pc[t] = "q_publish"
    /\ events' = events \cup {"SLEEP"}
    /\ passPub' = [passPub EXCEPT ![t] = TRUE]
    /\ pc' = [pc EXCEPT ![t] = "q_sleep"]
    /\ UNCHANGED <<last_battery_capacity, low_batt_sleep_attempts, power, caller,
                   socRead, tmp, sleep_time, connReq, connected, battStarted,
                   pubStarted, rxbuf, c, sawConn, sleepReq, run, allLow,
                   lowSleeps, quickStarts, console,
                   fnVars>>

\* mutant: the sleep call returns and the pass falls through to line 127
Q_Sleep_Returns(t) ==
    /\ power = "on" /\ pc[t] = "q_sleep"
    /\ pc' = [pc EXCEPT ![t] = "q_reset"]
    /\ UNCHANGED <<last_battery_capacity, low_batt_sleep_attempts, power, caller,
                   socRead, tmp, sleep_time, connReq, connected, battStarted,
                   pubStarted, rxbuf, c, events, sawConn, passPub, sleepReq, run,
                   allLow, lowSleeps, quickStarts, console,
                   fnVars>>

\* lines 120-125: System.sleep(SLEEP_MODE_SOFTPOWEROFF, sleep_time); the
\* device powers down, so line 127 is not reached by this pass
Q_Sleep(t) ==
    /\ power = "on" /\ pc[t] = "q_sleep"
    /\ power' = "asleep"
    /\ sleepReq' = [by |-> caller[t], dur |-> sleep_time[t], n |-> tmp[t],
                    conn |-> sawConn[t], pub |-> passPub[t]]
    /\ run' = run + 1
    /\ lowSleeps' = IF allLow THEN SatInc(lowSleeps) ELSE 0
    /\ UNCHANGED <<last_battery_capacity, low_batt_sleep_attempts, pc, caller,
                   socRead, tmp, sleep_time, connReq, connected, battStarted,
                   pubStarted, rxbuf, c, events, sawConn, passPub, allLow,
                   quickStarts, console,
                   fnVars>>

\* line 127: low_batt_sleep_attempts = 0, then return
Q_Reset(t) ==
    /\ power = "on" /\ pc[t] = "q_reset"
    /\ low_batt_sleep_attempts' = 0
    /\ pc' = [pc EXCEPT ![t] = PassReturn(t)]
    /\ run' = 0
    /\ UNCHANGED <<last_battery_capacity, power, caller, socRead, tmp, sleep_time,
                   connReq, connected, battStarted, pubStarted, rxbuf, c, events,
                   sawConn, passPub, sleepReq, allLow, lowSleeps, quickStarts, console,
                   fnVars>>

\* ------------------------------------------------------------------- setup
\* lines 192-198: pinMode, Serial1.begin, Particle.function x 2
\* mutant: Particle.connect() is called before the boot-time qualification
Setup_Begin_ConnectsFirst ==
    /\ power = "on" /\ pc["app"] = "setup_begin"
    /\ connReq' = TRUE
    /\ pc' = [pc EXCEPT !["app"] = "setup_reset"]
    /\ UNCHANGED <<last_battery_capacity, low_batt_sleep_attempts, power, caller,
                   socRead, tmp, sleep_time, connected, battStarted,
                   pubStarted, rxbuf, c, events, sawConn, passPub, sleepReq, run,
                   allLow, lowSleeps, quickStarts, console,
                   fnVars>>

Setup_Begin ==
    /\ power = "on" /\ pc["app"] = "setup_begin"
    /\ pc' = [pc EXCEPT !["app"] = "setup_reset"]
    /\ UNCHANGED <<last_battery_capacity, low_batt_sleep_attempts, power, caller,
                   socRead, tmp, sleep_time, connReq, connected, battStarted,
                   pubStarted, rxbuf, c, events, sawConn, passPub, sleepReq, run,
                   allLow, lowSleeps, quickStarts, console,
                   fnVars>>

\* lines 202-203: reset_battery_capacity(); qualify_battery_and_hibernate()
Setup_Qualify ==
    /\ power = "on" /\ pc["app"] = "setup_reset"
    /\ pc' = [pc EXCEPT !["app"] = "q_read"]
    /\ caller' = [caller EXCEPT !["app"] = "setup"]
    /\ quickStarts' = quickStarts \cup {"setup"}
    /\ UNCHANGED <<last_battery_capacity, low_batt_sleep_attempts, power,
                   socRead, tmp, sleep_time, connReq, connected, battStarted,
                   pubStarted, rxbuf, c, events, sawConn, passPub, sleepReq, run,
                   allLow, lowSleeps, console,
                   fnVars>>

\* line 205: Particle.connect()
Setup_Connect ==
    /\ power = "on" /\ pc["app"] = "setup_connect"
    /\ connReq' = TRUE
    /\ pc' = [pc EXCEPT !["app"] = "setup_wait"]
    /\ UNCHANGED <<last_battery_capacity, low_batt_sleep_attempts, power, caller,
                   socRead, tmp, sleep_time, connected, battStarted,
                   pubStarted, rxbuf, c, events, sawConn, passPub, sleepReq, run,
                   allLow, lowSleeps, quickStarts, console,
                   fnVars>>

\* mutant: the wait has no timeout and returns only once connected
Setup_WaitFor_NoTimeout ==
    /\ power = "on" /\ pc["app"] = "setup_wait"
    /\ connected
    /\ pc' = [pc EXCEPT !["app"] = "setup_wake"]
    /\ UNCHANGED <<last_battery_capacity, low_batt_sleep_attempts, power, caller,
                   socRead, tmp, sleep_time, connReq, connected, battStarted,
                   pubStarted, rxbuf, c, events, sawConn, passPub, sleepReq, run,
                   allLow, lowSleeps, quickStarts, console,
                   fnVars>>

\* line 206: waitFor(Particle.connected, 120000) returns when connected or
\* when the 120 s have passed
Setup_WaitFor ==
    /\ power = "on" /\ pc["app"] = "setup_wait"
    /\ pc' = [pc EXCEPT !["app"] = "setup_wake"]
    /\ UNCHANGED <<last_battery_capacity, low_batt_sleep_attempts, power, caller,
                   socRead, tmp, sleep_time, connReq, connected, battStarted,
                   pubStarted, rxbuf, c, events, sawConn, passPub, sleepReq, run,
                   allLow, lowSleeps, quickStarts, console,
                   fnVars>>

\* line 207: publish_pmic_stats_event("WAKE")
Setup_PublishWake ==
    /\ power = "on" /\ pc["app"] = "setup_wake"
    /\ events' = events \cup {"WAKE"}
    /\ pc' = [pc EXCEPT !["app"] = "setup_batt"]
    /\ UNCHANGED <<last_battery_capacity, low_batt_sleep_attempts, power, caller,
                   socRead, tmp, sleep_time, connReq, connected, battStarted,
                   pubStarted, rxbuf, c, sawConn, passPub, sleepReq, run,
                   allLow, lowSleeps, quickStarts, console,
                   fnVars>>

\* line 209: batt_monitor.start()
Setup_StartBatt ==
    /\ power = "on" /\ pc["app"] = "setup_batt"
    /\ battStarted' = TRUE
    /\ pc' = [pc EXCEPT !["app"] = "setup_pub"]
    /\ UNCHANGED <<last_battery_capacity, low_batt_sleep_attempts, power, caller,
                   socRead, tmp, sleep_time, connReq, connected,
                   pubStarted, rxbuf, c, events, sawConn, passPub, sleepReq, run,
                   allLow, lowSleeps, quickStarts, console,
                   fnVars>>

\* lines 210-215: publish_data.start(); showHelp(); setup returns to loop
Setup_StartPub ==
    /\ power = "on" /\ pc["app"] = "setup_pub"
    /\ pubStarted' = TRUE
    /\ pc' = [pc EXCEPT !["app"] = "loop"]
    /\ caller' = [caller EXCEPT !["app"] = "none"]
    /\ UNCHANGED <<last_battery_capacity, low_batt_sleep_attempts, power,
                   socRead, tmp, sleep_time, connReq, connected, battStarted,
                   rxbuf, c, events, sawConn, passPub, sleepReq, run,
                   allLow, lowSleeps, quickStarts, console,
                   fnVars>>

\* ------------------------------------------------------ loop / processSerial
\* lines 160-162: MY_SERIAL.available() > 0, c = MY_SERIAL.read()
PS_Read ==
    /\ power = "on" /\ pc["app"] = "loop"
    /\ Len(rxbuf) > 0
    /\ c' = Head(rxbuf)
    /\ rxbuf' = Tail(rxbuf)
    /\ pc' = [pc EXCEPT !["app"] = "ps_cmd"]
    /\ UNCHANGED <<last_battery_capacity, low_batt_sleep_attempts, power, caller,
                   socRead, tmp, sleep_time, connReq, connected, battStarted,
                   pubStarted, events, sawConn, passPub, sleepReq, run,
                   allLow, lowSleeps, quickStarts, console,
                   fnVars>>

\* lines 172-175: 'b' runs qualify_battery_and_hibernate()
PS_Qualify ==
    /\ power = "on" /\ pc["app"] = "ps_cmd"
    /\ c = "b"
    /\ pc' = [pc EXCEPT !["app"] = "q_read"]
    /\ caller' = [caller EXCEPT !["app"] = "serial"]
    /\ console' = "running"
    /\ UNCHANGED <<last_battery_capacity, low_batt_sleep_attempts, power,
                   socRead, tmp, sleep_time, connReq, connected, battStarted,
                   pubStarted, rxbuf, c, events, sawConn, passPub, sleepReq, run,
                   allLow, lowSleeps, quickStarts,
                   fnVars>>

\* lines 163-171 and 176-181: 'q', 'Q', 'v', 'h' read the fuel gauge or print
PS_Report ==
    /\ power = "on" /\ pc["app"] = "ps_cmd"
    /\ c \in {"q", "Q", "v", "h"}
    /\ pc' = [pc EXCEPT !["app"] = "ps_flush"]
    /\ quickStarts' = IF c = "q" THEN quickStarts \cup {"cmd"} ELSE quickStarts
    /\ console' = CASE c = "q" -> "quickstart stats"
                    [] c = "Q" -> "stats"
                    [] c = "v" -> "version"
                    [] OTHER -> "help"
    /\ UNCHANGED <<last_battery_capacity, low_batt_sleep_attempts, power, caller,
                   socRead, tmp, sleep_time, connReq, connected, battStarted,
                   pubStarted, rxbuf, c, events, sawConn, passPub, sleepReq, run,
                   allLow, lowSleeps,
                   fnVars>>

\* mutant: an unrecognised character falls into the 'b' branch
PS_Bad_RunsQualify ==
    /\ power = "on" /\ pc["app"] = "ps_cmd"
    /\ c \notin {"q", "Q", "b", "v", "h"}
    /\ console' = "bad command"
    /\ pc' = [pc EXCEPT !["app"] = "q_read"]
    /\ caller' = [caller EXCEPT !["app"] = "serial"]
    /\ UNCHANGED <<last_battery_capacity, low_batt_sleep_attempts, power,
                   socRead, tmp, sleep_time, connReq, connected, battStarted,
                   pubStarted, rxbuf, c, events, sawConn, passPub, sleepReq, run,
                   allLow, lowSleeps, quickStarts,
                   fnVars>>

\* lines 182-184: "Bad command!"
PS_Bad ==
    /\ power = "on" /\ pc["app"] = "ps_cmd"
    /\ c \notin {"q", "Q", "b", "v", "h"}
    /\ pc' = [pc EXCEPT !["app"] = "ps_flush"]
    /\ console' = "bad command"
    /\ UNCHANGED <<last_battery_capacity, low_batt_sleep_attempts, power, caller,
                   socRead, tmp, sleep_time, connReq, connected, battStarted,
                   pubStarted, rxbuf, c, events, sawConn, passPub, sleepReq, run,
                   allLow, lowSleeps, quickStarts,
                   fnVars>>

\* line 185: flush the input buffer, processSerial returns
\* mutant: the pending input is left in the buffer
PS_Flush_KeepsInput ==
    /\ power = "on" /\ pc["app"] = "ps_flush"
    /\ c' = "none"
    /\ pc' = [pc EXCEPT !["app"] = "loop"]
    /\ caller' = [caller EXCEPT !["app"] = "none"]
    /\ quickStarts' = quickStarts \ {"cmd"}
    /\ console' = "none"
    /\ UNCHANGED <<last_battery_capacity, low_batt_sleep_attempts, power,
                   socRead, tmp, sleep_time, connReq, connected, battStarted,
                   pubStarted, rxbuf, events, sawConn, passPub, sleepReq, run,
                   allLow, lowSleeps,
                   fnVars>>

PS_Flush ==
    /\ power = "on" /\ pc["app"] = "ps_flush"
    /\ rxbuf' = <<>>
    /\ c' = "none"
    /\ pc' = [pc EXCEPT !["app"] = "loop"]
    /\ caller' = [caller EXCEPT !["app"] = "none"]
    /\ quickStarts' = quickStarts \ {"cmd"}
    /\ console' = "none"
    /\ UNCHANGED <<last_battery_capacity, low_batt_sleep_attempts, power,
                   socRead, tmp, sleep_time, connReq, connected, battStarted,
                   pubStarted, events, sawConn, passPub, sleepReq, run,
                   allLow, lowSleeps,
                   fnVars>>

\* ---------------------------------------------------------- cloud functions
\* lines 194, 198: the cloud calls "soc" or "battv"; the call is handed to the
\* application thread, which runs it between two passes of loop()
Cloud_Call ==
    /\ power = "on" /\ connected /\ pc["app"] = "loop"
    /\ \E f \in {"fn_soc", "fn_battv"} : pc' = [pc EXCEPT !["app"] = f]
    /\ UNCHANGED <<last_battery_capacity, low_batt_sleep_attempts, power, caller,
                   socRead, tmp, sleep_time, connReq, connected, battStarted,
                   pubStarted, rxbuf, c, events, sawConn, passPub, sleepReq, run,
                   allLow, lowSleeps, quickStarts, console,
                   fnVars>>

\* lines 97-99: int get_soc(String c)
get_soc ==
    /\ power = "on" /\ pc["app"] = "fn_soc"
    /\ pc' = [pc EXCEPT !["app"] = "loop"]
    /\ UNCHANGED <<last_battery_capacity, low_batt_sleep_attempts, power, caller,
                   socRead, tmp, sleep_time, connReq, connected, battStarted,
                   pubStarted, rxbuf, c, events, sawConn, passPub, sleepReq, run,
                   allLow, lowSleeps, quickStarts, console,
                   fnVars>>

\* lines 101-103: int get_battv(String c)
get_battv ==
    /\ power = "on" /\ pc["app"] = "fn_battv"
    /\ pc' = [pc EXCEPT !["app"] = "loop"]
    /\ UNCHANGED <<last_battery_capacity, low_batt_sleep_attempts, power, caller,
                   socRead, tmp, sleep_time, connReq, connected, battStarted,
                   pubStarted, rxbuf, c, events, sawConn, passPub, sleepReq, run,
                   allLow, lowSleeps, quickStarts, console,
                   fnVars>>

\* ------------------------------------------------------------ timer thread
\* line 137: batt_monitor expires (period 24 min, so not before setup, which
\* started it moments ago, has returned) and calls qualify_battery_and_hibernate
BattMonitor_Fire ==
    /\ power = "on" /\ battStarted /\ InLoop
    /\ pc["timer"] = "idle"
    /\ pc' = [pc EXCEPT !["timer"] = "q_read"]
    /\ caller' = [caller EXCEPT !["timer"] = "timer"]
    /\ UNCHANGED <<last_battery_capacity, low_batt_sleep_attempts, power,
                   socRead, tmp, sleep_time, connReq, connected, battStarted,
                   pubStarted, rxbuf, c, events, sawConn, passPub, sleepReq, run,
                   allLow, lowSleeps, quickStarts, console,
                   fnVars>>

\* line 142: publish_data expires (period 1 min) and calls publish_pmic_stats
PublishData_Fire ==
    /\ power = "on" /\ pubStarted /\ InLoop
    /\ pc["timer"] = "idle"
    /\ pc' = [pc EXCEPT !["timer"] = "p_update"]
    /\ UNCHANGED <<last_battery_capacity, low_batt_sleep_attempts, power, caller,
                   socRead, tmp, sleep_time, connReq, connected, battStarted,
                   pubStarted, rxbuf, c, events, sawConn, passPub, sleepReq, run,
                   allLow, lowSleeps, quickStarts, console,
                   fnVars>>

\* mutant: the telemetry callback records the SoC in last_battery_capacity
publish_pmic_stats_StoresCapacity ==
    /\ power = "on" /\ pc["timer"] = "p_update"
    /\ events' = events \cup {"UPDATE"}
    /\ \E s \in SoCValues : last_battery_capacity' = s
    /\ pc' = [pc EXCEPT !["timer"] = "idle"]
    /\ UNCHANGED <<low_batt_sleep_attempts, power, caller,
                   socRead, tmp, sleep_time, connReq, connected, battStarted,
                   pubStarted, rxbuf, c, sawConn, passPub, sleepReq, run,
                   allLow, lowSleeps, quickStarts, console,
                   fnVars>>

\* lines 83-95: publish_pmic_stats publishes "UPDATE" and returns
publish_pmic_stats ==
    /\ power = "on" /\ pc["timer"] = "p_update"
    /\ events' = events \cup {"UPDATE"}
    /\ pc' = [pc EXCEPT !["timer"] = "idle"]
    /\ UNCHANGED <<last_battery_capacity, low_batt_sleep_attempts, power, caller,
                   socRead, tmp, sleep_time, connReq, connected, battStarted,
                   pubStarted, rxbuf, c, sawConn, passPub, sleepReq, run,
                   allLow, lowSleeps, quickStarts, console,
                   fnVars>>

\* ------------------------------------------------------------- environment
\* a character arrives on Serial1 (open since line 193)
SerialInput ==
    /\ power = "on" /\ pc["app"] # "setup_begin"
    /\ Len(rxbuf) < MaxRx
    /\ \E ch \in Chars : rxbuf' = Append(rxbuf, ch)
    /\ UNCHANGED <<last_battery_capacity, low_batt_sleep_attempts, power, pc,
                   caller, socRead, tmp, sleep_time, connReq, connected,
                   battStarted, pubStarted, c, events, sawConn, passPub,
                   sleepReq, run, allLow, lowSleeps, quickStarts, console,
                   fnVars>>

\* the system thread brings the cloud connection up after Particle.connect()
NetUp ==
    /\ power = "on" /\ connReq /\ ~connected
    /\ connected' = TRUE
    /\ UNCHANGED <<last_battery_capacity, low_batt_sleep_attempts, power, pc,
                   caller, socRead, tmp, sleep_time, connReq, battStarted,
                   pubStarted, rxbuf, c, events, sawConn, passPub, sleepReq, run,
                   allLow, lowSleeps, quickStarts, console,
                   fnVars>>

\* the connection drops
NetDown ==
    /\ power = "on" /\ connected
    /\ connected' = FALSE
    /\ UNCHANGED <<last_battery_capacity, low_batt_sleep_attempts, power, pc,
                   caller, socRead, tmp, sleep_time, connReq, battStarted,
                   pubStarted, rxbuf, c, events, sawConn, passPub, sleepReq, run,
                   allLow, lowSleeps, quickStarts, console,
                   fnVars>>

\* the sleep time is over: the device restarts; lines 40-41 and 51 keep the
\* retained variables, everything else is constructed anew
Wake ==
    /\ power = "asleep"
    /\ power' = "on"
    /\ pc' = [t \in Threads |-> IF t = "app" THEN "setup_begin" ELSE "idle"]
    /\ caller' = [t \in Threads |-> "none"]
    /\ socRead' = [t \in Threads |-> -1]
    /\ tmp' = [t \in Threads |-> 0]
    /\ sleep_time' = [t \in Threads |-> 0]
    /\ connReq' = FALSE
    /\ connected' = FALSE
    /\ battStarted' = FALSE
    /\ pubStarted' = FALSE
    /\ rxbuf' = <<>>
    /\ c' = "none"
    /\ events' = {}
    /\ sawConn' = [t \in Threads |-> FALSE]
    /\ passPub' = [t \in Threads |-> FALSE]
    /\ sleepReq' = NoSleep
    /\ quickStarts' = {}
    /\ console' = "none"
    /\ UNCHANGED <<last_battery_capacity, low_batt_sleep_attempts, run, allLow,
                   lowSleeps,
                   fnVars>>

\* ------------------------------------------------------------ specification
Next ==
    \/ \E t \in Threads : Q_Read(t)
    \/ \E t \in Threads : Q_Load(t)
    \/ \E t \in Threads : Q_Store(t)
    \/ \E t \in Threads : Q_Connected(t)
    \/ \E t \in Threads : Q_Publish(t)
    \/ \E t \in Threads : Q_Sleep(t)
    \/ \E t \in Threads : Q_Reset(t)
    \/ Setup_Begin
    \/ Setup_Qualify
    \/ Setup_Connect
    \/ Setup_WaitFor
    \/ Setup_PublishWake
    \/ Setup_StartBatt
    \/ Setup_StartPub
    \/ PS_Read
    \/ PS_Qualify
    \/ PS_Report
    \/ PS_Bad
    \/ PS_Flush
    \/ Cloud_Call
    \/ get_soc
    \/ get_battv
    \/ BattMonitor_Fire
    \/ PublishData_Fire
    \/ publish_pmic_stats
    \/ SerialInput
    \/ NetUp
    \/ NetDown
    \/ Wake

Spec == Init /\ [][Next]_vars

\* the retained counter after 2^32 - 2 or 2^32 - 1 consecutive boots that
\* read SoC < 20.0 (held as -2 and -1)
WrapStarts == {-2, -1}

WrapInit ==
    /\ low_batt_sleep_attempts \in WrapStarts
    /\ lowSleeps = 2147483647
    /\ BootState
    /\ FnIdle

\* the firmware booting with the counter at the top of its 32-bit range
WrapSpec == WrapInit /\ [][Next]_vars

\* the steps of the application thread
AppStep ==
    \/ Q_Read("app") \/ Q_Load("app") \/ Q_Store("app") \/ Q_Connected("app")
    \/ Q_Publish("app") \/ Q_Sleep("app") \/ Q_Reset("app")
    \/ Setup_Begin \/ Setup_Qualify \/ Setup_Connect \/ Setup_WaitFor
    \/ Setup_PublishWake \/ Setup_StartBatt \/ Setup_StartPub
    \/ PS_Read \/ PS_Qualify \/ PS_Report \/ PS_Bad \/ PS_Flush
    \/ get_soc \/ get_battv

\* The application thread keeps running while the device is powered, and a
\* sleep of a finite duration ends.  Input, connectivity and the timer thread
\* are not forced.
LiveSpec ==
    /\ Spec
    /\ WF_vars(AppStep)
    /\ WF_vars(Wake)

\* the steps of the timer thread inside a callback
TimerStep ==
    \/ Q_Read("timer") \/ Q_Load("timer") \/ Q_Store("timer")
    \/ Q_Connected("timer") \/ Q_Publish("timer") \/ Q_Sleep("timer")
    \/ Q_Reset("timer")
    \/ publish_pmic_stats

\* Both threads keep running while the device is powered: a callback the
\* timer thread has entered runs to its end.
FairSpec ==
    /\ LiveSpec
    /\ WF_vars(TimerStep)

\* ------------------------------------------- sleep_backoff checked in isolation
FnInit ==
    /\ ProgInit
    /\ arg_m \in BackoffArgs
    /\ arg_n \in BackoffArgs
    /\ ret_m = -1
    /\ ret_n = -1

\* the two calls sleep_backoff(arg_m), sleep_backoff(arg_n)
Call_sleep_backoff ==
    /\ ret_m = -1
    /\ ret_m' = sleep_backoff(arg_m)
    /\ ret_n' = sleep_backoff(arg_n)
    /\ UNCHANGED <<progVars, arg_m, arg_n>>

FnNext == Call_sleep_backoff

FnSpec == FnInit /\ [][FnNext]_vars

\* ================================================================== claims
\* the step of thread t that ends its qualification pass: the return after
\* line 127, or the System.sleep call of line 125
PassEnds(t) ==
    \/ pc[t] = "q_reset" /\ pc'[t] # "q_reset"
    \/ pc[t] = "q_sleep" /\ power = "on" /\ power' = "asleep"
       /\ sleepReq'.by = caller[t]

\* the duration the documented scaling formula gives for attempt n
ExpectedSleep(n) == (144 * Pow2(Min(7, U32Div3(n))) * 1000) \div 100

\* C1: after each qualification pass low_batt_sleep_attempts equals the number
\* of consecutive passes that read SoC < 20.0 since the most recent pass that
\* read SoC >= 20.0 (or since the initial 0).
C1_CounterCountsLowPasses ==
    [][\A t \in Threads : PassEnds(t) => low_batt_sleep_attempts' = run']_vars

C3_Original ==
    ret_m # -1 =>
        IF arg_m = 0 THEN ret_m = 0
        ELSE ret_m = Pow2(Min(7, arg_m \div 3))

\* C3 amended: sleep_backoff(n) = 1000 * 2^min(7, n/3) for n >= 1 (the tier in
\* seconds, returned in milliseconds), and 0 for n = 0
C3_BackoffMillis ==
    ret_m # -1 =>
        IF arg_m = 0 THEN ret_m = 0
        ELSE ret_m = 1000 * Pow2(Min(7, arg_m \div 3))

\* C3 witness: attempt 21 has been evaluated and gave the top tier
C3_Witness == arg_m = 21 /\ ret_m = 128000 /\ arg_n = 0 /\ ret_n = 0

\* C4 as stated: sleep_backoff is monotonically non-decreasing and bounded
\* above by 128
C4_Original ==
    ret_m # -1 =>
        /\ arg_m <= arg_n => ret_m <= ret_n
        /\ ret_m <= 128

\* C4 amended: sleep_backoff is monotonically non-decreasing and bounded above
\* by 128000
C4_MonotoneBounded ==
    ret_m # -1 =>
        /\ arg_m <= arg_n => ret_m <= ret_n
        /\ ret_m <= 128000 /\ ret_n <= 128000

\* C4 witness: a smaller and a larger argument in different tiers, the larger
\* one far beyond the cap
C4_Witness ==
    /\ arg_m = 2 /\ arg_n = 2147483647
    /\ ret_m = 1000 /\ ret_n = 128000

\* C5: whenever a pass invokes the sleep primitive, the duration is
\* 144 * 2^min(7, n/3) * 1000 / 100 for the counter value n that pass stored
\* (1440 for n = 1), whatever the SoC read, the connectivity or the caller.
C5_SleepDuration ==
    power = "asleep" =>
        /\ sleepReq.dur = ExpectedSleep(sleepReq.n)
        /\ sleepReq.n = 1 => sleepReq.dur = 1440

\* C5 witness: a first attempt sleeps for 1440 after publishing while connected
C5_Witness ==
    /\ power = "asleep" /\ sleepReq.n = 1 /\ sleepReq.dur = 1440
    /\ sleepReq.pub

\* C6: a pass that read SoC >= 20.0 (20.0 included) is only ever at line 127;
\* its step sets the counter to 0, returns, and neither sleeps nor publishes.
C6_NoSleepAtOrAboveThreshold ==
    /\ [](\A t \in Threads :
            pc[t] \in PassPcs \ {"q_read"} /\ socRead[t] >= LOW_BATT_CAPACITY
                => pc[t] = "q_reset" /\ ~passPub[t])
    /\ [][\A t \in Threads :
            pc[t] \in PassPcs \ {"q_read"} /\ socRead[t] >= LOW_BATT_CAPACITY
            /\ power = "on" /\ pc'[t] # pc[t]
                => /\ low_batt_sleep_attempts' = 0
                   /\ pc'[t] = PassReturn(t)
                   /\ power' = "on" /\ sleepReq' = sleepReq
                   /\ events' = events /\ ~passPub'[t]]_vars

\* C6 witness: the boot-time pass read exactly 20 and returned with counter 0
C6_Witness ==
    /\ power = "on" /\ pc["app"] = "setup_connect"
    /\ socRead["app"] = 20 /\ low_batt_sleep_attempts = 0

\* C7: a pass that read SoC < 20.0 and found connectivity not established
\* publishes nothing and still invokes sleep, with the duration of its attempt.
C7_SleepWithoutConnectivity ==
    /\ [](power = "asleep" /\ ~sleepReq.conn
            => ~sleepReq.pub /\ sleepReq.dur = ExpectedSleep(sleepReq.n))
    /\ [][\A t \in Threads :
            pc[t] = "q_connected" /\ ~connected /\ power = "on"
            /\ pc'[t] # pc[t]
                => pc'[t] = "q_sleep" /\ events' = events /\ ~passPub'[t]]_vars
    /\ [](\A t \in Threads :
            pc[t] = "q_sleep" /\ ~sawConn[t] /\ power = "on"
                => ~passPub[t] /\ ENABLED Q_Sleep(t))

\* C7 witness: a poll-timer pass slept while the connection, asked for in
\* setup, was down
C7_Witness ==
    /\ power = "asleep" /\ sleepReq.by = "timer"
    /\ ~sleepReq.conn /\ ~sleepReq.pub /\ connReq
    /\ sleepReq.dur = 1440

\* C8: with SoC below 20.0 at every pass since the counter's initial 0, the
\* k-th sleep request uses exponent min(7, k/3) (duration 1440 * 2^exponent),
\* which is 7 from the 21st request on.
C8_TierSequence ==
    power = "asleep" /\ allLow =>
        /\ lowSleeps >= 1
        /\ sleepReq.dur = 1440 * Pow2(Min(7, lowSleeps \div 3))
        /\ lowSleeps >= 21 => sleepReq.dur = 1440 * 128

\* C8 witness: the 22nd consecutive sleep request, at the capped tier
C8_Witness ==
    /\ power = "asleep" /\ allLow /\ lowSleeps = 22
    /\ sleepReq.dur = 184320

\* C9: every requested sleep duration lies in 1440 .. 184320 and the product
\* 144 * sleep_backoff(n) stays below 2^32.
C9_DurationRange ==
    power = "asleep" =>
        /\ 1440 <= sleepReq.dur /\ sleepReq.dur <= 184320
        /\ (144 * sleep_backoff(sleepReq.n)) \div 65536 < 65536

\* C9 witness: a sleep at the maximum duration, requested by attempt 24 or later
C9_Witness ==
    /\ power = "asleep" /\ sleepReq.dur = 184320 /\ sleepReq.n >= 24

\* the boot-time qualification of setup (line 203) is about to read the SoC
BootQualification ==
    power = "on" /\ pc["app"] = "q_read" /\ caller["app"] = "setup"

\* C10: every sleep is followed on wake by a fresh boot-time qualification; a
\* boot-time qualification that read SoC < 20.0 leads to sleep in that boot,
\* without reaching connect(); one that read SoC >= 20.0 leads to normal
\* operation: counter 0 and both timers started.
C10_SleepWakeLoop ==
    /\ [][power = "asleep" /\ power' = "on"
            => pc'["app"] = "setup_begin" /\ pc'["timer"] = "idle"
               /\ ~battStarted' /\ ~pubStarted']_vars
    /\ (power = "asleep") ~> BootQualification
    /\ [](caller["app"] = "setup" /\ socRead["app"] # -1
          /\ socRead["app"] < LOW_BATT_CAPACITY
            => pc["app"] \in PassPcs /\ ~connReq /\ ~battStarted /\ ~pubStarted)
    /\ (power = "on" /\ caller["app"] = "setup" /\ pc["app"] = "q_load")
            ~> (power = "asleep" /\ sleepReq.by = "setup")
    /\ (power = "on" /\ caller["app"] = "setup" /\ pc["app"] = "q_reset")
            ~> (power = "on" /\ low_batt_sleep_attempts = 0
                /\ battStarted /\ pubStarted)

\* C10 witness: the fourth consecutive boot-time qualification, after three
\* sleeps
C10_Witness ==
    BootQualification /\ low_batt_sleep_attempts = 3 /\ lowSleeps = 3

\* C11: no two invocations that touch low_batt_sleep_attempts (boot-time call,
\* poll-timer callback, console command 'b') are in progress at the same time,
\* and none is in progress during a publish_pmic_stats callback.
C11_NoOverlap ==
    power = "on" =>
        /\ ~(pc["app"] \in PassPcs /\ pc["timer"] \in PassPcs)
        /\ ~(pc["app"] \in PassPcs /\ pc["timer"] = "p_update")

\* the retained variables, the sleep request and the locals that decide it
Qualification == <<last_battery_capacity, low_batt_sleep_attempts, power,
                   sleepReq, sleep_time, tmp>>

\* a step of publish_pmic_stats, get_soc, get_battv, setup's
\* reset_battery_capacity, or one of the commands 'q', 'Q', 'v', 'h'
ReadOnlyStep ==
    /\ power = "on"
    /\ \/ pc["timer"] = "p_update" /\ pc'["timer"] # "p_update"
       \/ pc["app"] \in {"fn_soc", "fn_battv"} /\ pc'["app"] # pc["app"]
       \/ pc["app"] = "setup_reset" /\ pc'["app"] # "setup_reset"
       \/ /\ pc["app"] = "ps_cmd" /\ c \in {"q", "Q", "v", "h"}
          /\ pc'["app"] # "ps_cmd"

\* C12: last_battery_capacity and low_batt_sleep_attempts change only in a
\* step of qualify_battery_and_hibernate (lines 115, 127); publish_pmic_stats,
\* get_soc, get_battv, reset_battery_capacity and the commands 'q', 'Q', 'v',
\* 'h' leave them, and every sleep decision, unchanged.
C12_PersistedStateFrame ==
    [][ /\ (<<last_battery_capacity, low_batt_sleep_attempts>>'
               # <<last_battery_capacity, low_batt_sleep_attempts>>)
            => (\E t \in Threads :
                   pc[t] \in {"q_store", "q_reset"} /\ pc'[t] # pc[t])
        /\ ReadOnlyStep => (Qualification' = Qualification) ]_vars

\* C12 witness: the telemetry callback has published and the command 'q' has
\* run reset_battery_capacity
C12_Witness ==
    /\ power = "on" /\ "UPDATE" \in events
    /\ "cmd" \in quickStarts /\ console = "quickstart stats"

\* a step of processSerial handling a character other than q, Q, b, v, h
BadCommandStep ==
    /\ power = "on" /\ pc'["app"] # pc["app"]
    /\ \/ pc["app"] = "ps_cmd" /\ c \notin {"q", "Q", "b", "v", "h"}
       \/ pc["app"] = "ps_flush" /\ console = "bad command"

\* C13: an unrecognised console character is reported ("Bad command!") and
\* changes nothing else: no counter change, no sleep, no publish, no
\* quick-start, until processSerial returns.
C13_BadCommand ==
    [][ BadCommandStep
            => /\ (pc["app"] = "ps_cmd")
                    => (console' = "bad command" /\ pc'["app"] = "ps_flush")
               /\ (pc["app"] = "ps_flush") => (pc'["app"] = "loop")
               /\ Qualification' = Qualification
               /\ events' = events /\ passPub' = passPub
               /\ quickStarts' = quickStarts ]_vars

\* C13 witness: the character 'x' has been answered with "Bad command!"
C13_Witness ==
    /\ power = "on" /\ pc["app"] = "ps_flush"
    /\ c = "x" /\ console = "bad command"

\* C14: sleep_backoff is never called with attempt number 0: the argument,
\* the pre-incremented counter, is >= 1 at every call and in every sleep
\* request, after any number of consecutive below-threshold passes.
C14_ArgumentNeverZero ==
    /\ \A t \in Threads :
          power = "on" /\ pc[t] \in {"q_connected", "q_publish", "q_sleep"}
              => tmp[t] # 0
    /\ power = "asleep" => sleepReq.n # 0

\* C15: once the boot-time qualification has returned, setup starts both
\* timers whether or not the cloud connection is ever established (the
\* waitFor of line 206 is always able to go on), and every qualification pass
\* in progress ends in System.sleep or in a return.
C15_StartupTerminates ==
    /\ [](power = "on" /\ pc["app"] = "setup_wait" => ENABLED Setup_WaitFor)
    /\ (power = "on" /\ pc["app"] = "setup_connect")
            ~> (power = "on" /\ battStarted /\ pubStarted)
    /\ \A t \in Threads :
          (power = "on" /\ pc[t] \in PassPcs)
              ~> (power = "asleep" \/ pc[t] \notin PassPcs)

\* C15 witness: both timers started, connect() called, no connection
C15_Witness ==
    /\ power = "on" /\ pc["app"] = "loop"
    /\ battStarted /\ pubStarted
    /\ connReq /\ ~connected /\ events = {"WAKE"}

\* C16: in every boot reset_battery_capacity and the boot-time qualification
\* are over before Particle.connect() is called; a boot-time qualification
\* that reads SoC < 20.0 sleeps without a connection, without a SLEEP or
\* WAKE publish, without connect() and with neither timer started.
C16_QualifyBeforeConnect ==
    /\ power = "on" /\ caller["app"] = "setup" /\ pc["app"] \in PassPcs
          => /\ "setup" \in quickStarts
             /\ ~connReq /\ ~connected /\ events = {}
             /\ ~battStarted /\ ~pubStarted
    /\ power = "on" /\ connReq
          => /\ "setup" \in quickStarts
             /\ pc["app"] \notin {"setup_begin", "setup_reset"}
             /\ ~(caller["app"] = "setup" /\ pc["app"] \in PassPcs)
    /\ power = "asleep" /\ sleepReq.by = "setup"
          => /\ ~sleepReq.conn /\ ~sleepReq.pub
             /\ ~connReq /\ ~connected /\ events = {}
             /\ ~battStarted /\ ~pubStarted

\* C16 witness: asleep by the boot-time qualification, for the second time
C16_Witness ==
    /\ power = "asleep" /\ sleepReq.by = "setup"
    /\ sleepReq.n = 2 /\ socRead["app"] = 15

\* C17: after the boot-time qualification has returned the counter is 0
\* whenever no pass is in progress, so every sleep requested by the poll timer
\* or by command 'b' is attempt 1 with duration 1440, every published SLEEP
\* reports 1440, and attempts >= 2 come from the boot-time qualification only.
C17_RuntimeSleepsAreFirstAttempts ==
    /\ (/\ power = "on"
        /\ pc["app"] \notin {"setup_begin", "setup_reset"}
        /\ \A t \in Threads : pc[t] \notin PassPcs)
          => low_batt_sleep_attempts = 0
    /\ power = "asleep" /\ sleepReq.by \in {"timer", "serial"}
          => sleepReq.n = 1 /\ sleepReq.dur = 1440
    /\ power = "asleep" /\ sleepReq.pub => sleepReq.dur = 1440
    /\ power = "asleep" /\ sleepReq.n >= 2 => sleepReq.by = "setup"

\* a step of the application thread that leaves the device powered
AppMoves == power = "on" /\ power' = "on" /\ pc'["app"] # pc["app"]

====
